---- MODULE Spec2Model ----
(***************************************************************************)
(* A model of the Python-Synapse teaching scripts.  The scripts drive      *)
(* four engines of the Python runtime: the iterator protocol, generator    *)
(* objects (next / send / close), the asyncio event loop with gather, and  *)
(* concurrent.futures' ThreadPoolExecutor (submit / as_completed / map).   *)
(* Each engine has a specification of its own (SpecIter, SpecGen,          *)
(* SpecLoop, SpecPool); the variables of the other engines stay idle.      *)
(* SpecWait is the event loop with requests that wait for one another,     *)
(* SpecCancel the thread pool with a caller that cancels futures.          *)
(***************************************************************************)
EXTENDS Integers, Sequences, FiniteSets

VARIABLES
  gen,      \* the generator object under test (02_generators.py)
  call,     \* the last call made on gen and what the caller got back
  ncalls,   \* number of calls made so far (bounded by MaxCalls)
  it,       \* the iterator under test (01_iterables&iterators.py)
  itcall,   \* the last call made on it and what the caller got back
  inputs,   \* seconds_list of the with-block (01_threading.py)
  block,    \* which with-block runs: "submit" (as_completed) or "map"
  mpc,      \* where the main thread is in the with-block
  fut,      \* the Future of each submitted unit of work
  workq,    \* the executor's work queue: submitted, not yet picked up
  finishOrder, \* the units in the order they finished
  ac,       \* the as_completed generator
  received, \* the results the main thread has printed, in order
  cancels,  \* the Future.cancel() calls made so far and what they returned
  rejected, \* submit calls that raised because the executor was shut down
  delays,   \* delay of each network_request (01_coroutines.py)
  awaits,   \* the task each request awaits instead of sleeping (0: it sleeps)
  fails,    \* whether each request raises when its sleep is over
  clock,    \* the event loop's time
  ready,    \* the event loop's queue of ready callbacks
  timers,   \* the event loop's scheduled timer handles
  ntodo,    \* callbacks left to run in the current loop iteration
  stopping, \* loop.stop() has been called
  lpc,      \* the loop is "running" or "closed"
  task,     \* main (0) and the three request tasks: state, result, exception
  outer,    \* the future returned by asyncio.gather
  observed, \* the children in the order gather's callback saw them finish
  console   \* what the coroutines have printed

genVars  == <<gen, call, ncalls>>
iterVars == <<it, itcall>>
callVars == <<cancels, rejected>>
poolVars == <<inputs, block, mpc, fut, workq, finishOrder, ac, received,
              callVars>>
loopVars == <<delays, awaits, fails, clock, ready, timers, ntodo, stopping, lpc, task,
              outer, observed, console>>
vars     == <<genVars, iterVars, poolVars, loopVars>>
notGen   == <<iterVars, poolVars, loopVars>>
notIter  == <<genVars, poolVars, loopVars>>
notPool  == <<genVars, iterVars, loopVars>>
notLoop  == <<genVars, iterVars, poolVars>>

(***************************************************************************)
(* Bounds of the model.                                                    *)
(***************************************************************************)
MaxCalls == 5      \* calls made on generator objects in one run
LoBound  == 1      \* SquareRange / square_generator arguments range over
HiBound  == 4      \*   -LoBound .. HiBound
MaxUnits == 3      \* length of seconds_list
MaxSec   == 2      \* seconds_list holds values of 1 .. MaxSec
PoolSize == 2      \* max_workers of the ThreadPoolExecutor
MaxDelay == 3      \* network_request delays range over 1 .. MaxDelay
MaxLate  == 1      \* submit calls made after the with-block
MaxCancels == 1    \* Future.cancel() calls made in one with-block

(***************************************************************************)
(* Python values.  Values are tagged so that None, strings and integers    *)
(* are distinct and comparable.                                            *)
(***************************************************************************)
None   == <<"None">>
Str(s) == <<"str", s>>
Num(n) == <<"int", n>>

\* What a call hands back to its caller: a value, or a raised exception
\* (StopIteration carries the generator's return value).
Returned(v)   == [exc |-> "",  val |-> v]
Raised(e, v)  == [exc |-> e,   val |-> v]

(***************************************************************************)
(* Generator bodies.  A body step takes the frozen frame (pc = index of    *)
(* the yield the frame is suspended at, 0 = not started, loc = locals,     *)
(* out = what the body has printed) and a signal, [t |-> "send", v |-> x]  *)
(* or [t |-> "throw", e |-> exc], and runs the body up to its next yield,  *)
(* return or uncaught exception.                                           *)
(***************************************************************************)
Yield(g, v, pc, loc, out) ==
  [ev |-> "yield", val |-> v, exc |-> "", pc |-> pc, loc |-> loc, out |-> out]
Return(g, v, out) ==
  [ev |-> "return", val |-> v, exc |-> "", pc |-> g.pc, loc |-> g.loc, out |-> out]
Raise(g, e, out) ==
  [ev |-> "raise", val |-> None, exc |-> e, pc |-> g.pc, loc |-> g.loc, out |-> out]

Emit(out, line) == Append(out, line)

\* def loud_generator(): print started; yield 1; yield 2; print finished
loud_generator(g, sig) ==
  IF sig.t = "throw" THEN Raise(g, sig.e, g.out)
  ELSE CASE g.pc = 0 -> Yield(g, Num(1), 1, g.loc,
                              Emit(g.out, <<"--- Generator Started ---">>))
         [] g.pc = 1 -> Yield(g, Num(2), 2, g.loc, g.out)
         [] OTHER    -> Return(g, None,
                               Emit(g.out, <<"--- Generator Finished ---">>))

\* def chef_bot(): print; while True: ingredient = yield "Waiting..."; print
chef_bot(g, sig) ==
  IF sig.t = "throw" THEN Raise(g, sig.e, g.out)
  ELSE IF g.pc = 0
       THEN Yield(g, Str("Waiting for ingredient..."), 1, g.loc,
                  Emit(g.out, <<"Chef is in the kitchen!">>))
       ELSE Yield(g, Str("Waiting for ingredient..."), 1, g.loc,
                  Emit(g.out, <<"Chef is cooking with: ", sig.v>>))

\* `pattern in value` for the pattern "coroutine" of the demo, over the
\* strings the model sends.
PatternIn(v) == v = Str("I love coroutine")

\* def grep(pattern): print; while True: value = yield; if pattern in value: print(value)
grep(g, sig) ==
  IF sig.t = "throw" THEN Raise(g, sig.e, g.out)
  ELSE IF g.pc = 0
       THEN Yield(g, None, 1, g.loc,
                  Emit(g.out, <<"Searching for the pattern : ", Str("coroutine")>>))
       ELSE IF sig.v = None
            THEN Raise(g, "TypeError", g.out)    \* `in` on None
            ELSE Yield(g, None, 1, g.loc,
                       IF PatternIn(sig.v) THEN Emit(g.out, <<"match", sig.v>>)
                                           ELSE g.out)

\* def database_reader(): try: print; yield "Row 1"; yield "Row 2"
\*                        finally: print("Disconnected safely")
Disconnected == <<"Disconnected safely">>

database_reader(g, sig) ==
  IF sig.t = "throw" THEN Raise(g, sig.e, Emit(g.out, Disconnected))
  ELSE CASE g.pc = 0 -> Yield(g, Str("Row 1"), 1, g.loc,
                              Emit(g.out, <<"Connected to DB">>))
         [] g.pc = 1 -> Yield(g, Str("Row 2"), 2, g.loc, g.out)
         [] OTHER    -> Return(g, None, Emit(g.out, Disconnected))

\* The generator the .close() docstring warns about: one that "tries to
\* yield another value after being closed".
\*   def stubborn_reader():
\*       try:     yield "Row 1"
\*       finally: yield "Row 2"
\* pc = 1: at the yield in try; pc = 2: at the yield in finally, loc = <<e>>
\* when exception e is pending while the finally block runs, else << >>.
stubborn_reader(g, sig) ==
  CASE g.pc = 0 -> Yield(g, Str("Row 1"), 1, <<>>, g.out)
    [] g.pc = 1 -> Yield(g, Str("Row 2"), 2,
                         IF sig.t = "throw" THEN <<sig.e>> ELSE <<>>, g.out)
    [] OTHER    -> IF sig.t = "throw" THEN Raise(g, sig.e, g.out)
                   ELSE IF g.loc # <<>> THEN Raise(g, g.loc[1], g.out)
                   ELSE Return(g, None, g.out)

\* def square_generator(start, end):
\* count_generator whose end bound is inclusive (mutant).
count_generatorInclusive(g, sig) ==
  IF sig.t = "throw" THEN Raise(g, sig.e, g.out)
  ELSE LET current == IF g.pc = 0 THEN g.loc.start ELSE g.loc.current + 1
       IN  IF current <= g.loc.end
           THEN Yield(g, Num(current), 1,
                      [g.loc EXCEPT !.current = current], g.out)
           ELSE Return(g, None, g.out)

\* def count_generator(start, end):
\*     current = start
\*     while current < end: yield current; current += 1
count_generator(g, sig) ==
  IF sig.t = "throw" THEN Raise(g, sig.e, g.out)
  ELSE LET current == IF g.pc = 0 THEN g.loc.start ELSE g.loc.current + 1
       IN  IF current < g.loc.end
           THEN Yield(g, Num(current), 1,
                      [g.loc EXCEPT !.current = current], g.out)
           ELSE Return(g, None, g.out)

\*     current = start
\*     while current < end: yield current ** 2; current += 1
square_generator(g, sig) ==
  IF sig.t = "throw" THEN Raise(g, sig.e, g.out)
  ELSE LET current == IF g.pc = 0 THEN g.loc.start ELSE g.loc.current + 1
       IN  IF current < g.loc.end
           THEN Yield(g, Num(current * current), 1,
                      [g.loc EXCEPT !.current = current], g.out)
           ELSE Return(g, None, g.out)

\* def thrower(): try: yield 1; yield 2
\*                except ValueError as e: print(e); yield "ValueError handled"
\* pc = 1, 2: at a yield of the try block; pc = 3: at the yield of the
\* handler, where nothing catches any more.
thrower(g, sig) ==
  CASE g.pc = 0 -> Yield(g, Num(1), 1, g.loc, g.out)
    [] g.pc \in {1, 2} /\ sig.t = "throw" ->
         IF sig.e = "ValueError"
         THEN Yield(g, Str("ValueError handled"), 3, g.loc,
                    Emit(g.out, <<sig.e>>))
         ELSE Raise(g, sig.e, g.out)
    [] g.pc = 1 -> Yield(g, Num(2), 2, g.loc, g.out)
    [] g.pc = 2 -> Return(g, None, g.out)
    [] OTHER    -> IF sig.t = "throw" THEN Raise(g, sig.e, g.out)
                   ELSE Return(g, None, g.out)

\* def sub_eh(): try: yield 1; yield 2
\*               except ValueError: yield "Handled error"
sub_eh(g, sig) ==
  CASE g.pc = 0 -> Yield(g, Num(1), 1, g.loc, g.out)
    [] g.pc \in {1, 2} /\ sig.t = "throw" ->
         IF sig.e = "ValueError"
         THEN Yield(g, Str("Handled error"), 3, g.loc, g.out)
         ELSE Raise(g, sig.e, g.out)
    [] g.pc = 1 -> Yield(g, Num(2), 2, g.loc, g.out)
    [] g.pc = 2 -> Return(g, None, g.out)
    [] OTHER    -> IF sig.t = "throw" THEN Raise(g, sig.e, g.out)
                   ELSE Return(g, None, g.out)

\* The sub-generator a `yield from` delegates to, as the frame its body
\* runs on: loc of the delegating frame is << >> before the delegation
\* starts and <<sub>> while it is suspended in it; the sub-generator prints
\* to the same console.
SubFrame(g) ==
  IF g.pc = 0 THEN [g EXCEPT !.loc = <<>>]
  ELSE [g EXCEPT !.pc = g.loc[1].pc, !.loc = g.loc[1].loc]

\* How the step r of the sub-generator shows in the delegating frame that
\* has nothing after its `yield from`: a value the sub-generator yields is
\* yielded on; when it returns, the delegating body runs to its own end;
\* what it raises is raised at the `yield from`, where nothing catches it.
YieldFrom(g, r) ==
  CASE r.ev = "yield"  ->
         Yield(g, r.val, 1, <<[pc |-> r.pc, loc |-> r.loc]>>, r.out)
    [] r.ev = "return" -> Return(g, None, r.out)
    [] OTHER           -> Raise(g, r.exc, r.out)

\* def main_eh(): yield from sub_eh()
\* Whatever is sent or thrown into main_eh goes to the sub-generator's
\* pending yield.
main_eh(g, sig) == YieldFrom(g, sub_eh(SubFrame(g), sig))

\* def sub(): yield 1; yield 2
sub(g, sig) ==
  CASE sig.t = "throw" /\ g.pc # 0 -> Raise(g, sig.e, g.out)
    [] g.pc = 0 -> Yield(g, Num(1), 1, g.loc, g.out)
    [] g.pc = 1 -> Yield(g, Num(2), 2, g.loc, g.out)
    [] OTHER    -> Return(g, None, g.out)

\* The delegating frame of main once its sub-generator has made the step r:
\* a value the sub-generator yields is yielded on; when it returns, the
\* `yield from` expression is over (its value is not used) and the body
\* goes on to `yield 3`.
mainDelegated(g, r) ==
  CASE r.ev = "yield"  ->
         Yield(g, r.val, 1, <<[pc |-> r.pc, loc |-> r.loc]>>, r.out)
    [] r.ev = "return" -> Yield(g, Num(3), 2, <<>>, r.out)
    [] OTHER           -> Raise(g, r.exc, r.out)

\* def main(): yield from sub(); yield 3
\* pc = 0, 1: before or in the delegation; pc = 2: at `yield 3`.
main(g, sig) ==
  CASE g.pc \in {0, 1}  -> mainDelegated(g, sub(SubFrame(g), sig))
    [] sig.t = "throw"  -> Raise(g, sig.e, g.out)
    [] OTHER            -> Return(g, None, g.out)

\* def sub_task(): while True: value = yield; print("Sub recieved: ", value)
sub_task(g, sig) ==
  CASE g.pc = 0        -> Yield(g, None, 1, g.loc, g.out)
    [] sig.t = "throw" -> Raise(g, sig.e, g.out)
    [] OTHER           ->
         Yield(g, None, 1, g.loc, Emit(g.out, <<"Sub recieved: ", sig.v>>))

\* A delegation that resumes the sub-generator with None whatever was sent
\* (mutant).
main_taskPlainNext(g, sig) ==
  YieldFrom(g, sub_task(SubFrame(g),
                        IF sig.t = "send" THEN [sig EXCEPT !.v = None] ELSE sig))

\* def main_task(): yield from sub_task()
main_task(g, sig) == YieldFrom(g, sub_task(SubFrame(g), sig))

\* def retval(): yield 1; yield 2; return "Done"
retval(g, sig) ==
  CASE sig.t = "throw" /\ g.pc # 0 -> Raise(g, sig.e, g.out)
    [] g.pc = 0 -> Yield(g, Num(1), 1, g.loc, g.out)
    [] g.pc = 1 -> Yield(g, Num(2), 2, g.loc, g.out)
    [] OTHER    -> Return(g, Str("Done"), g.out)

\* The delegating frame of main_retval once its sub-generator has made the
\* step r: when the sub-generator returns, its return value is the value of
\* the `yield from` expression: result = r.val, print(result), and the body
\* runs to its end.
main_retvalDelegated(g, r) ==
  CASE r.ev = "yield"  ->
         Yield(g, r.val, 1, <<[pc |-> r.pc, loc |-> r.loc]>>, r.out)
    [] r.ev = "return" -> Return(g, None, Emit(r.out, <<r.val>>))
    [] OTHER           -> Raise(g, r.exc, r.out)

\* def main_retval(): result = yield from retval(); print(result)
main_retval(g, sig) == main_retvalDelegated(g, retval(SubFrame(g), sig))

Body(g, sig) ==
  CASE g.body = "loud_generator"   -> loud_generator(g, sig)
    [] g.body = "chef_bot"         -> chef_bot(g, sig)
    [] g.body = "grep"             -> grep(g, sig)
    [] g.body = "database_reader"  -> database_reader(g, sig)
    [] g.body = "stubborn_reader"  -> stubborn_reader(g, sig)
    [] g.body = "square_generator" -> square_generator(g, sig)
    [] g.body = "count_generator"  -> count_generator(g, sig)
    [] g.body = "thrower"          -> thrower(g, sig)
    [] g.body = "sub_eh"           -> sub_eh(g, sig)
    [] g.body = "main_eh"          -> main_eh(g, sig)
    [] g.body = "main"             -> main(g, sig)
    [] g.body = "main_task"        -> main_task(g, sig)
    [] g.body = "main_retval"      -> main_retval(g, sig)

(***************************************************************************)
(* Generator objects: calling a generator function, next/send and close.   *)
(* state is CREATED, SUSPENDED or CLOSED (RUNNING is never observed by a   *)
(* caller of the same thread); how records why a CLOSED generator closed.  *)
(***************************************************************************)
\* Resume the frame with a signal and classify how the body left off.
Deliver(g, sig) ==
  LET r == Body(g, sig)
      h == [g EXCEPT !.pc = r.pc, !.loc = r.loc, !.out = r.out]
  IN  CASE r.ev = "yield"  ->
             [g |-> [h EXCEPT !.state = "SUSPENDED"], res |-> Returned(r.val)]
        [] r.ev = "return" ->
             [g |-> [h EXCEPT !.state = "CLOSED", !.how = "returned"],
              res |-> Raised("StopIteration", r.val)]
        [] OTHER ->
             [g |-> [h EXCEPT !.state = "CLOSED", !.how = "raised"],
              res |-> Raised(r.exc, None)]

\* An eager constructor: runs the body to its first yield (mutant).
NewGenEager(b, loc) ==
  Deliver([body |-> b, state |-> "CREATED", how |-> "", pc |-> 0,
           loc |-> loc, out |-> <<>>], [t |-> "send", v |-> None]).g

\* g = loud_generator(): a generator object, no body code run.
NewGen(b, loc) ==
  [body |-> b, state |-> "CREATED", how |-> "", pc |-> 0, loc |-> loc,
   out |-> <<>>]

\* send without the just-started check (mutant).
GenSendUnchecked(g, v) ==
  IF g.state = "CLOSED" THEN [g |-> g, res |-> Raised("StopIteration", None)]
  ELSE Deliver(g, [t |-> "send", v |-> v])

\* A closed generator that starts over when resumed (mutant).
GenSendRestart(g, v) ==
  IF g.state = "CREATED" /\ v # None THEN [g |-> g, res |-> Raised("TypeError", None)]
  ELSE IF g.state = "CLOSED"
       THEN Deliver([g EXCEPT !.pc = 0], [t |-> "send", v |-> None])
       ELSE Deliver(g, [t |-> "send", v |-> v])

\* gen.send(v); next(gen) is gen.send(None).
GenSend(g, v) ==
  IF g.state = "CREATED" /\ v # None
  THEN [g |-> g, res |-> Raised("TypeError", None)]
  ELSE IF g.state = "CLOSED"
       THEN [g |-> g, res |-> Raised("StopIteration", None)]
       ELSE Deliver(g, [t |-> "send", v |-> v])

\* close that marks the generator closed without raising GeneratorExit
\* inside it (mutant).
GenCloseNoInject(g) ==
  [g |-> [g EXCEPT !.state = "CLOSED",
                   !.how = IF g.state = "CLOSED" THEN g.how ELSE "closed"],
   res |-> Returned(None)]

\* close that gives up silently when the body yields again (mutant).
GenCloseSilent(g) ==
  IF g.state = "SUSPENDED"
  THEN LET r == Deliver(g, [t |-> "throw", e |-> "GeneratorExit"])
       IN  IF r.g.state = "SUSPENDED" THEN [g |-> r.g, res |-> Returned(None)]
           ELSE [g |-> [r.g EXCEPT !.how = "closed"], res |-> Returned(None)]
  ELSE GenCloseNoInject(g)

\* gen.close(): raises GeneratorExit at the pending yield.
GenClose(g) ==
  CASE g.state = "CREATED" ->
         [g |-> [g EXCEPT !.state = "CLOSED", !.how = "closed"],
          res |-> Returned(None)]
    [] g.state = "CLOSED" -> [g |-> g, res |-> Returned(None)]
    [] OTHER ->
         LET r == Deliver(g, [t |-> "throw", e |-> "GeneratorExit"])
         IN  CASE r.g.state = "SUSPENDED" ->
                    [g |-> r.g, res |-> Raised("RuntimeError", None)]
               [] r.res.exc \in {"StopIteration", "GeneratorExit"} ->
                    [g |-> [r.g EXCEPT !.how = "closed"], res |-> Returned(None)]
               [] OTHER -> r

\* throw that fails the generator from outside, without raising the
\* exception inside the body (mutant).
GenThrowOutOfBand(g, e) ==
  [g |-> IF g.state = "CLOSED" THEN g
         ELSE [g EXCEPT !.state = "CLOSED", !.how = "raised"],
   res |-> Raised(e, None)]

\* throw that marks an already closed generator as failed (mutant).
GenThrowReopen(g, e) ==
  IF g.state = "SUSPENDED" THEN Deliver(g, [t |-> "throw", e |-> e])
  ELSE [g |-> [g EXCEPT !.state = "CLOSED", !.how = "raised"],
        res |-> Raised(e, None)]

\* gen.throw(e): raises e at the pending yield.  A generator that has not
\* started has no yield to raise at: it is closed and e comes straight back;
\* a closed generator stays as it is and e comes straight back.
GenThrow(g, e) ==
  CASE g.state = "CREATED" ->
         [g |-> [g EXCEPT !.state = "CLOSED", !.how = "raised"],
          res |-> Raised(e, None)]
    [] g.state = "CLOSED" -> [g |-> g, res |-> Raised(e, None)]
    [] OTHER -> Deliver(g, [t |-> "throw", e |-> e])

(***************************************************************************)
(* SpecGen: a caller creating generator objects and calling next / send /  *)
(* close on them in any order (02_generators.py, 01_coroutines.py:14-27).  *)
(***************************************************************************)
GenBodies == {"loud_generator", "chef_bot", "grep", "database_reader",
              "stubborn_reader", "thrower", "main_eh", "main", "main_task",
              "main_retval"}

\* None (what next() sends) and strings the demos send.
Values == {None, Str("Tomato"), Str("I love coroutine")}

\* The exceptions a caller throws: the one the demos' handlers catch and one
\* they do not.
Excs == {"ValueError", "KeyError"}

IdleGen  == NewGen("loud_generator", <<>>)
\* A call record: the operation, its argument, the state the call found the
\* generator in, and what the caller got back.
IdleCall == [op |-> "create", arg |-> None, pre |-> "", res |-> Returned(None)]

\* g = body()
Create(b) ==
  /\ ncalls < MaxCalls
  /\ gen' = NewGen(b, <<>>)
  /\ call' = IdleCall
  /\ ncalls' = ncalls + 1
  /\ UNCHANGED notGen

\* next(g) (v = None) or g.send(v)
Send(v) ==
  /\ ncalls < MaxCalls
  /\ LET r == GenSend(gen, v)
     IN  /\ gen' = r.g
         /\ call' = [op |-> "send", arg |-> v, pre |-> gen.state, res |-> r.res]
  /\ ncalls' = ncalls + 1
  /\ UNCHANGED notGen

\* g.close()
Close ==
  /\ ncalls < MaxCalls
  /\ LET r == GenClose(gen)
     IN  /\ gen' = r.g
         /\ call' = [op |-> "close", arg |-> None, pre |-> gen.state,
                     res |-> r.res]
  /\ ncalls' = ncalls + 1
  /\ UNCHANGED notGen

\* g.throw(e)
Throw(e) ==
  /\ ncalls < MaxCalls
  /\ LET r == GenThrow(gen, e)
     IN  /\ gen' = r.g
         /\ call' = [op |-> "throw", arg |-> Str(e), pre |-> gen.state,
                     res |-> r.res]
  /\ ncalls' = ncalls + 1
  /\ UNCHANGED notGen

(***************************************************************************)
(* SpecIter: one iterator object, a SquareRange instance or the generator  *)
(* square_generator(start, end), driven by next() and by for loops         *)
(* (01_iterables&iterators.py).                                            *)
(***************************************************************************)
Args == (0 - LoBound) .. HiBound

\* SquareRange.__init__
SquareRange(start, end) ==
  [cls |-> "SquareRange", start |-> start, end |-> end, value |-> start]

\* __next__ that rewinds when it reports exhaustion (mutant).
SquareRange__next__Rewind(o) ==
  IF o.value >= o.end
  THEN [o |-> [o EXCEPT !.value = o.start], res |-> Raised("StopIteration", None)]
  ELSE [o |-> [o EXCEPT !.value = o.value + 1],
        res |-> Returned(Num(o.value * o.value))]

\* __next__ that stops one value late (mutant).
SquareRange__next__Late(o) ==
  IF o.value > o.end
  THEN [o |-> o, res |-> Raised("StopIteration", None)]
  ELSE [o |-> [o EXCEPT !.value = o.value + 1],
        res |-> Returned(Num(o.value * o.value))]

\* SquareRange.__next__
SquareRange__next__(o) ==
  IF o.value >= o.end
  THEN [o |-> o, res |-> Raised("StopIteration", None)]
  ELSE [o |-> [o EXCEPT !.value = o.value + 1],
        res |-> Returned(Num(o.value * o.value))]

\* Count.__init__ (02_generators.py)
Count(start, end) == [cls |-> "Count", current |-> start, end |-> end]

\* Count.__next__: the end bound is inclusive.
Count__next__(o) ==
  IF o.current > o.end
  THEN [o |-> o, res |-> Raised("StopIteration", None)]
  ELSE [o |-> [o EXCEPT !.current = o.current + 1],
        res |-> Returned(Num((o.current + 1) - 1))]

\* counter_gen = count_generator(start, end)
CountGen(start, end) ==
  NewGen("count_generator", [start |-> start, end |-> end, current |-> start])

\* squares_gen = square_generator(start, end)
SquareGen(start, end) ==
  [cls |-> "generator",
   g |-> NewGen("square_generator",
                [start |-> start, end |-> end, current |-> start])]

\* next(o): the iterator protocol's one step.
IterNext(o) ==
  CASE o.cls = "SquareRange" -> SquareRange__next__(o)
    [] o.cls = "Count"       -> Count__next__(o)
    [] OTHER -> LET r == GenSend(o.g, None)
                IN  [o |-> [o EXCEPT !.g = r.g], res |-> r.res]

\* for num in o: print(num) -- iter(o) is o itself; next() until
\* StopIteration, which ends the loop silently; any other exception leaves
\* the loop.
RECURSIVE ForLoop(_, _)
ForLoop(o, printed) ==
  LET r == IterNext(o)
  IN  IF r.res.exc = "StopIteration"
      THEN [o |-> r.o, printed |-> printed, res |-> Returned(None)]
      ELSE IF r.res.exc # ""
           THEN [o |-> r.o, printed |-> printed, res |-> r.res]
           ELSE ForLoop(r.o, Append(printed, r.res.val))

IdleIt     == SquareRange(0, 0)
IdleItCall == [op |-> "new", res |-> Returned(None), printed |-> <<>>]

NextCall ==
  /\ LET r == IterNext(it)
     IN  /\ it' = r.o
         /\ itcall' = [op |-> "next", res |-> r.res, printed |-> <<>>]
  /\ UNCHANGED notIter

ForCall ==
  /\ LET r == ForLoop(it, <<>>)
     IN  /\ it' = r.o
         /\ itcall' = [op |-> "for", res |-> r.res, printed |-> r.printed]
  /\ UNCHANGED notIter

\* The generator object gen as an iterator object.
AsIterator(g) == [cls |-> "generator", g |-> g]

\* One next() on the Count instance it and one on the generator gen; the
\* outcome of the first is recorded in itcall, of the second in call.
NextBoth ==
  /\ LET r == IterNext(it)
     IN  /\ it' = r.o
         /\ itcall' = [op |-> "next", res |-> r.res, printed |-> <<>>]
  /\ LET r == IterNext(AsIterator(gen))
     IN  /\ gen' = r.o.g
         /\ call' = [op |-> "next", res |-> r.res, printed |-> <<>>]
  /\ UNCHANGED <<ncalls, poolVars, loopVars>>

\* for num in counter: print(num) and for num in counter_gen: print(num)
ForBothDone(a, b) ==
  /\ it' = a.o
  /\ itcall' = [op |-> "for", res |-> a.res, printed |-> a.printed]
  /\ gen' = b.o.g
  /\ call' = [op |-> "for", res |-> b.res, printed |-> b.printed]
  /\ UNCHANGED <<ncalls, poolVars, loopVars>>

ForBoth == ForBothDone(ForLoop(it, <<>>), ForLoop(AsIterator(gen), <<>>))

(***************************************************************************)
(* SpecPool: one with-block of 01_threading.py.  The main thread submits   *)
(* one unit of work per element of seconds_list, then either iterates      *)
(* as_completed over the futures (block "submit") or iterates the results  *)
(* of executor.map (block "map"), and leaves the with-block.  Worker       *)
(* threads pick units up and finish them at any time: the threads'         *)
(* interleaving is not constrained by the sleeps.                          *)
(***************************************************************************)
\* def do_wait(seconds): ...; return f'Done Waiting {seconds}...'
do_wait(seconds) == <<"Done Waiting ", seconds, "...">>

Units      == 1 .. Len(inputs)
Submitted  == 1 .. Len(fut)
Running    == {u \in Submitted : fut[u].state = "RUNNING"}
Finished   == {u \in Submitted : fut[u].state = "FINISHED"}
\* Cancelled futures a worker has come across and reported to the waiters.
Notified   == {u \in Submitted : fut[u].state = "CANCELLED_AND_NOTIFIED"}

IdleAc == [started |-> FALSE, early0 |-> {}, early |-> {}, waiter |-> <<>>,
           batch |-> <<>>, yielded |-> <<>>]

\* executor.submit(do_wait, sec), called for each sec in order by the list
\* comprehension and by executor.map alike.
Submit ==
  /\ mpc = "submit"
  /\ Len(fut) < Len(inputs)
  /\ fut' = Append(fut, [state |-> "PENDING", result |-> None])
  /\ workq' = Append(workq, Len(fut) + 1)
  /\ UNCHANGED <<inputs, block, mpc, finishOrder, ac, received, callVars, notPool>>

\* The submissions are over: the main thread goes on to iterate.
StartIterating ==
  /\ mpc = "submit"
  /\ Len(fut) = Len(inputs)
  /\ mpc' = "iterate"
  /\ UNCHANGED <<inputs, block, fut, workq, finishOrder, ac, received, callVars, notPool>>

\* What a worker does with the work item of unit u it took off the queue
\* (_WorkItem.run): a cancelled future is reported to the waiters and its
\* do_wait is not called; otherwise the future is set running and do_wait
\* starts.
TakeUp(u) ==
  IF fut[u].state = "CANCELLED"
  THEN /\ fut' = [fut EXCEPT ![u].state = "CANCELLED_AND_NOTIFIED"]
       /\ finishOrder' = Append(finishOrder, u)
       /\ ac' = IF ac.started THEN [ac EXCEPT !.waiter = Append(@, u)] ELSE ac
  ELSE /\ fut' = [fut EXCEPT ![u].state = "RUNNING"]
       /\ UNCHANGED <<finishOrder, ac>>

\* A pool that starts a thread for every queued unit (mutant).
DispatchUnbounded ==
  /\ workq # <<>>
  /\ TakeUp(Head(workq))
  /\ workq' = Tail(workq)
  /\ UNCHANGED <<inputs, block, mpc, received, callVars, notPool>>

\* A worker that leaves the item it took in the queue (mutant).
DispatchKeepsItem ==
  /\ workq # <<>>
  /\ Cardinality(Running) < PoolSize
  /\ TakeUp(Head(workq))
  /\ UNCHANGED <<inputs, block, mpc, workq, received, callVars, notPool>>

\* A worker that runs the item whatever the state of its future (mutant).
DispatchCancelled ==
  /\ workq # <<>>
  /\ Cardinality(Running) < PoolSize
  /\ fut' = [fut EXCEPT ![Head(workq)].state = "RUNNING"]
  /\ workq' = Tail(workq)
  /\ UNCHANGED <<inputs, block, mpc, finishOrder, ac, received, callVars,
                 notPool>>

\* An idle worker thread takes the oldest item of the work queue.
Dispatch ==
  /\ workq # <<>>
  /\ Cardinality(Running) < PoolSize
  /\ TakeUp(Head(workq))
  /\ workq' = Tail(workq)
  /\ UNCHANGED <<inputs, block, mpc, received, callVars, notPool>>

\* results[u].cancel() on the main thread: a future that is still pending
\* becomes cancelled (its work item stays in the queue) and the call
\* returns True, as it does for a future cancelled before; a future that is
\* running or finished is left alone and the call returns False.
Cancel(u) ==
  /\ block = "submit"
  /\ mpc \in {"submit", "iterate"}
  /\ u \in Submitted
  /\ Len(cancels) < MaxCancels
  /\ LET ok == fut[u].state \in {"PENDING", "CANCELLED",
                                 "CANCELLED_AND_NOTIFIED"}
     IN  /\ cancels' = Append(cancels, [u |-> u, was |-> fut[u].state,
                                        ok |-> ok])
         /\ fut' = IF fut[u].state = "PENDING"
                   THEN [fut EXCEPT ![u].state = "CANCELLED"]
                   ELSE fut
  /\ UNCHANGED <<inputs, block, mpc, workq, finishOrder, ac, received,
                 rejected, notPool>>

\* do_wait returns on a worker thread: Future.set_result, which also hands
\* the future to an installed as_completed waiter.
Finish(u) ==
  /\ u \in Running
  /\ fut' = [fut EXCEPT ![u] = [state |-> "FINISHED",
                                result |-> do_wait(inputs[u])]]
  /\ finishOrder' = Append(finishOrder, u)
  /\ ac' = IF ac.started THEN [ac EXCEPT !.waiter = Append(@, u)] ELSE ac
  /\ UNCHANGED <<inputs, block, mpc, workq, received, callVars, notPool>>

\* The first next() on as_completed(results): the futures already finished
\* are collected into a set, a waiter is installed on all of them.
AsCompletedStart ==
  /\ block = "submit"
  /\ mpc = "iterate"
  /\ ~ac.started
  /\ ac' = [ac EXCEPT !.started = TRUE, !.early0 = Finished \cup Notified,
                      !.early = Finished \cup Notified]
  /\ UNCHANGED <<inputs, block, mpc, fut, workq, finishOrder, received, callVars, notPool>>

CancelledError == <<"CancelledError">>

\* The main thread prints f.result() of the yielded future f; the result()
\* of a cancelled future raises CancelledError, which leaves the for loop
\* and the with-block.
Yielded(u) ==
  /\ received' = Append(received, IF u \in Notified THEN CancelledError
                                  ELSE fut[u].result)
  /\ mpc' = IF u \in Notified THEN "exit" ELSE mpc
  /\ UNCHANGED <<inputs, block, fut, workq, finishOrder, callVars, notPool>>

\* as_completed that yields the futures in the order of the list it was
\* given, each once it has finished (mutant).
AsCompletedNextInListOrder ==
  /\ block = "submit"
  /\ mpc = "iterate"
  /\ ac.started
  /\ Len(ac.yielded) < Len(fut)
  /\ LET u == Len(ac.yielded) + 1
     IN  /\ u \in Finished
         /\ ac' = [ac EXCEPT !.yielded = Append(@, u)]
         /\ Yielded(u)

\* One more turn of `for f in as_completed(results)`: first the futures that
\* were finished at the start, in the order of a set; then, batch by batch,
\* the futures in the order the waiter was handed them.
AsCompletedNext ==
  /\ block = "submit"
  /\ mpc = "iterate"
  /\ ac.started
  /\ Len(ac.yielded) < Len(fut)
  /\ \/ \E u \in ac.early :
          /\ ac' = [ac EXCEPT !.early = @ \ {u}, !.yielded = Append(@, u)]
          /\ Yielded(u)
     \/ /\ ac.early = {}
        /\ ac.batch # <<>>
        /\ ac' = [ac EXCEPT !.batch = Tail(@),
                            !.yielded = Append(@, Head(ac.batch))]
        /\ Yielded(Head(ac.batch))
     \/ /\ ac.early = {}
        /\ ac.batch = <<>>
        /\ ac.waiter # <<>>
        /\ ac' = [ac EXCEPT !.waiter = <<>>, !.batch = Tail(ac.waiter),
                            !.yielded = Append(@, Head(ac.waiter))]
        /\ Yielded(Head(ac.waiter))

\* executor.map whose iterator hands out results as they complete (mutant).
MapNextAsCompleted ==
  /\ block = "map"
  /\ mpc = "iterate"
  /\ Len(received) < Len(finishOrder)
  /\ received' = Append(received, fut[finishOrder[Len(received) + 1]].result)
  /\ UNCHANGED <<inputs, block, mpc, fut, workq, finishOrder, ac, callVars, notPool>>

\* One more turn of `for f in results` over executor.map's iterator: it
\* waits for the result of the next future in submission order.
MapNext ==
  /\ block = "map"
  /\ mpc = "iterate"
  /\ Len(received) < Len(fut)
  /\ LET u == Len(received) + 1
     IN  /\ u \in Finished
         /\ received' = Append(received, fut[u].result)
  /\ UNCHANGED <<inputs, block, mpc, fut, workq, finishOrder, ac, callVars, notPool>>

\* The iterator is exhausted: the for loop ends and the with-block is left.
LoopEnds ==
  /\ mpc = "iterate"
  /\ Len(received) = Len(fut)
  /\ block = "submit" => ac.started
  /\ mpc' = "exit"
  /\ UNCHANGED <<inputs, block, fut, workq, finishOrder, ac, received, callVars, notPool>>

\* shutdown that does not wait for the workers (mutant).
ExitNoWait ==
  /\ mpc = "exit"
  /\ mpc' = "done"
  /\ UNCHANGED <<inputs, block, fut, workq, finishOrder, ac, received,
                 callVars, notPool>>

\* ThreadPoolExecutor.__exit__: shutdown(wait=True) has been called when the
\* block was left and returns when the workers have emptied the queue and
\* ended.
Exit ==
  /\ mpc = "exit"
  /\ workq = <<>>
  /\ Running = {}
  /\ mpc' = "done"
  /\ UNCHANGED <<inputs, block, fut, workq, finishOrder, ac, received,
                 callVars, notPool>>

\* executor.submit(...) after the with-block: the executor is shut down,
\* the call raises RuntimeError and no future is made.
SubmitAfterShutdown ==
  /\ mpc = "done"
  /\ rejected < MaxLate
  /\ rejected' = rejected + 1
  /\ UNCHANGED <<inputs, block, mpc, fut, workq, finishOrder, ac, received,
                 cancels, notPool>>

(***************************************************************************)
(* SpecLoop: asyncio.run(main()) of 01_coroutines.py.  The event loop runs *)
(* on one thread: each iteration moves the due timers to the ready queue   *)
(* and runs the callbacks that are ready at that point, one after the      *)
(* other.  Task 0 is main, tasks 1 .. NTasks are the network_request       *)
(* coroutines handed to asyncio.gather, in argument order.  Running a      *)
(* callback takes no loop time; timers of equal deadline fire in the order *)
(* they were scheduled.                                                    *)
(***************************************************************************)
NTasks   == 3
Children == 1 .. NTasks

\* network_request("API_A", 3), ("API_B", 2), ("Database", 1)
Name(i) == CASE i = 1 -> "API_A" [] i = 2 -> "API_B" [] OTHER -> "Database"

\* return f"Data from {name}"
Data(i) == <<"Data from ", Name(i)>>

\* The exception a failing request raises.
Cause(i) == <<"ValueError", Name(i)>>

NoExc == <<>>
NewTask(st) == [state |-> st, val |-> None, exc |-> NoExc, running |-> FALSE]
Handle(k, t) == [k |-> k, t |-> t]

Terminal(i) == task[i].state \in {"done", "failed", "cancelled"}

\* The tasks whose coroutine is executing (cr_running).
Executing == {i \in 0 .. NTasks : task[i].running}

\* A loop that takes the next handle while a task's step is still going on
\* (mutant).
RunsWhileExecuting(k, t) ==
  /\ lpc = "running"
  /\ ntodo > 0
  /\ Head(ready) = Handle(k, t)

\* The handle the loop runs next in this iteration: _run_once runs the
\* handles one after the other, the next one when the last has returned.
Runs(k, t) ==
  /\ lpc = "running"
  /\ ntodo > 0
  /\ Head(ready) = Handle(k, t)
  /\ Executing = {}

\* Due timers with equal deadlines taken last-scheduled first (mutant).
RECURSIVE DueTiesReversed(_, _)
DueTiesReversed(ts, now) ==
  LET due == {j \in 1 .. Len(ts) : ts[j].when <= now}
  IN  IF due = {} THEN <<>>
      ELSE LET j == CHOOSE a \in due :
                      \A b \in due : \/ ts[a].when < ts[b].when
                                     \/ ts[a].when = ts[b].when /\ a >= b
           IN  <<Handle("timer", ts[j].t)>>
               \o DueTiesReversed([k \in 1 .. (Len(ts) - 1) |->
                                     IF k < j THEN ts[k] ELSE ts[k + 1]], now)

\* The scheduled timers that are due at time now, earliest deadline first.
RECURSIVE Due(_, _)
Due(ts, now) ==
  LET due == {j \in 1 .. Len(ts) : ts[j].when <= now}
  IN  IF due = {} THEN <<>>
      ELSE LET j == CHOOSE a \in due :
                      \A b \in due : \/ ts[a].when < ts[b].when
                                     \/ ts[a].when = ts[b].when /\ a <= b
           IN  <<Handle("timer", ts[j].t)>>
               \o Due([k \in 1 .. (Len(ts) - 1) |->
                         IF k < j THEN ts[k] ELSE ts[k + 1]], now)

NotDue(ts, now) == SelectSeq(ts, LAMBDA x : x.when > now)

Earliest(ts) ==
  CHOOSE w \in {ts[j].when : j \in 1 .. Len(ts)} :
    \A j \in 1 .. Len(ts) : w <= ts[j].when

\* BaseEventLoop._run_once up to the point where it starts running handles:
\* sleep until the earliest deadline when nothing is ready, move the due
\* timers to the ready queue, count the handles to run.
LoopIterate ==
  /\ lpc = "running"
  /\ ntodo = 0
  /\ Executing = {}
  /\ ~stopping
  /\ ready # <<>> \/ timers # <<>>
  /\ LET now == IF ready = <<>> THEN Earliest(timers) ELSE clock
         rdy == ready \o Due(timers, now)
     IN  /\ clock' = now
         /\ ready' = rdy
         /\ timers' = NotDue(timers, now)
         /\ ntodo' = Len(rdy)
  /\ UNCHANGED <<delays, awaits, fails, stopping, lpc, task, outer, observed, console,
                 notLoop>>

\* The loop runs the step handle of task i: Task.__step enters the task and
\* resumes its coroutine, which runs until it suspends, returns or raises.
Enter(i) ==
  /\ Runs("step", i)
  /\ task' = [task EXCEPT ![i].running = TRUE]
  /\ ready' = Tail(ready)
  /\ ntodo' = ntodo - 1
  /\ UNCHANGED <<delays, awaits, fails, clock, timers, stopping, lpc, outer,
                 observed, console, notLoop>>

\* main up to its await: the three coroutine objects are created (nothing
\* of them runs), gather wraps each in a task whose first step is
\* scheduled, and main waits for gather's future.
MainStart ==
  /\ task[0].running
  /\ task[0].state = "ready"
  /\ task' = [i \in 0 .. NTasks |->
                IF i = 0 THEN NewTask("awaiting") ELSE NewTask("ready")]
  /\ ready' = ready \o [i \in Children |-> Handle("step", i)]
  /\ outer' = [state |-> "PENDING", val |-> None, exc |-> NoExc, nfinished |-> 0]
  /\ console' = console \o <<<<"--- Execution Start ---">>,
                             <<"Scheduling tasks concurrently...">>>>
  /\ UNCHANGED <<delays, awaits, fails, clock, timers, ntodo, stopping, lpc,
                 observed, notLoop>>

\* network_request up to `await asyncio.sleep(delay)`.
ChildStart(i) ==
  /\ task[i].running
  /\ task[i].state = "ready"
  /\ awaits[i] = 0
  /\ console' = Append(console, <<"Starting", Name(i), delays[i]>>)
  /\ timers' = Append(timers, [when |-> clock + delays[i], t |-> i])
  /\ task' = [task EXCEPT ![i].state = "sleeping", ![i].running = FALSE]
  /\ UNCHANGED <<delays, awaits, fails, clock, ready, ntodo, stopping, lpc,
                 outer, observed, notLoop>>

\* The sleep's timer handle runs: the sleep future gets its result and
\* schedules the wakeup of the task waiting on it.
TimerFires(i) ==
  /\ Runs("timer", i)
  /\ task' = [task EXCEPT ![i].state = "woken"]
  /\ ready' = Append(Tail(ready), Handle("step", i))
  /\ ntodo' = ntodo - 1
  /\ UNCHANGED <<delays, awaits, fails, clock, timers, stopping, lpc, outer, observed,
                 console, notLoop>>

\* A request that waits for another task instead of a timer: up to
\* `await task` of a task that is not done.  (The task it awaits has been
\* scheduled in the same loop iteration and cannot be done yet.)
ChildAwait(i) ==
  /\ task[i].running
  /\ task[i].state = "ready"
  /\ awaits[i] # 0
  /\ console' = Append(console, <<"Starting", Name(i), delays[i]>>)
  /\ task' = [task EXCEPT ![i].state = "awaiting", ![i].running = FALSE]
  /\ UNCHANGED <<delays, awaits, fails, clock, ready, timers, ntodo, stopping,
                 lpc, outer, observed, notLoop>>

\* The tasks suspended in `await task_i`, in the order they registered
\* their wakeup on task i.
Waiters(tk, i) ==
  SelectSeq([k \in Children |-> k],
            LAMBDA w : awaits[w] = i /\ tk[w].state = "awaiting")

\* network_request after its await: print and return the data; the finished
\* task schedules its done callbacks: gather's, then the wakeups of the
\* tasks awaiting it.  No request of the script fails: fails[i] makes
\* request i raise here instead, the failing child of the design's gather
\* example; the exception of an awaited task is raised at the await.
ChildResume(i) ==
  /\ task[i].running
  /\ task[i].state = "woken"
  /\ LET inherited == awaits[i] # 0 /\ task[awaits[i]].state = "failed"
         end == IF inherited
                THEN [state |-> "failed", val |-> None,
                      exc |-> task[awaits[i]].exc, running |-> FALSE]
                ELSE IF fails[i]
                     THEN [state |-> "failed", val |-> None, exc |-> Cause(i),
                           running |-> FALSE]
                     ELSE [state |-> "done", val |-> Data(i), exc |-> NoExc,
                           running |-> FALSE]
         ws == Waiters(task, i)
     IN  /\ task' = [k \in 0 .. NTasks |->
                       IF k = i THEN end
                       ELSE IF k \in Children /\ awaits[k] = i
                               /\ task[k].state = "awaiting"
                            THEN [task[k] EXCEPT !.state = "woken"]
                            ELSE task[k]]
         /\ console' = IF end.state = "done"
                       THEN Append(console, <<"Finished", Name(i)>>)
                       ELSE console
         /\ ready' = Append(ready, Handle("done_cb", i))
                       \o [k \in 1 .. Len(ws) |-> Handle("step", ws[k])]
  /\ UNCHANGED <<delays, awaits, fails, clock, timers, ntodo, stopping, lpc,
                 outer, observed, notLoop>>

\* gather that collects the results in the order the children finish
\* (mutant).
GatherDoneInFinishOrder(o, tk, obs, i) ==
  IF o.state # "PENDING" THEN [o EXCEPT !.nfinished = @ + 1]
  ELSE IF tk[i].state = "failed"
       THEN [o EXCEPT !.nfinished = @ + 1, !.state = "FAILED", !.exc = tk[i].exc]
       ELSE IF o.nfinished + 1 = NTasks
            THEN [o EXCEPT !.nfinished = @ + 1, !.state = "RESULT",
                           !.val = [k \in Children |-> tk[Append(obs, i)[k]].val]]
            ELSE [o EXCEPT !.nfinished = @ + 1]

\* gather that reports a failure only once every child has finished
\* (mutant).
GatherDoneWaitAll(o, tk, obs, i) ==
  IF o.state # "PENDING" \/ o.nfinished + 1 < NTasks
  THEN [o EXCEPT !.nfinished = @ + 1]
  ELSE IF \E k \in Children : tk[k].state = "failed"
       THEN [o EXCEPT !.nfinished = @ + 1, !.state = "FAILED",
                      !.exc = tk[CHOOSE k \in Children : tk[k].state = "failed"].exc]
       ELSE [o EXCEPT !.nfinished = @ + 1, !.state = "RESULT",
                      !.val = [k \in Children |-> tk[k].val]]

\* asyncio.gather's _done_callback (return_exceptions=False) for child i:
\* the first exception seen is set on the outer future at once; when the
\* last child has finished, the results are collected in argument order.
GatherDone(o, tk, obs, i) ==
  IF o.state # "PENDING" THEN [o EXCEPT !.nfinished = @ + 1]
  ELSE IF tk[i].state = "failed"
       THEN [o EXCEPT !.nfinished = @ + 1, !.state = "FAILED", !.exc = tk[i].exc]
       ELSE IF o.nfinished + 1 = NTasks
            THEN [o EXCEPT !.nfinished = @ + 1, !.state = "RESULT",
                           !.val = [k \in Children |-> tk[k].val]]
            ELSE [o EXCEPT !.nfinished = @ + 1]

\* The loop runs gather's done callback of child i; an outer future that
\* becomes done schedules the wakeup of main.
GatherCallback(i) ==
  /\ Runs("done_cb", i)
  /\ outer' = GatherDone(outer, task, observed, i)
  /\ observed' = Append(observed, i)
  /\ ready' = IF outer.state = "PENDING" /\ outer'.state # "PENDING"
              THEN Append(Tail(ready), Handle("step", 0))
              ELSE Tail(ready)
  /\ ntodo' = ntodo - 1
  /\ UNCHANGED <<delays, awaits, fails, clock, timers, stopping, lpc, task, console,
                 notLoop>>

\* main after `results = await asyncio.gather(...)`: prints the results and
\* returns, or the exception of gather leaves main; run_until_complete's
\* callback is scheduled.
MainResume ==
  /\ task[0].running
  /\ task[0].state = "awaiting"
  /\ IF outer.state = "RESULT"
     THEN /\ task' = [task EXCEPT ![0].state = "done", ![0].running = FALSE]
          /\ console' = console \o <<<<"--- Executive Finish ---">>,
                                     <<"Results: ", outer.val>>>>
     ELSE /\ task' = [task EXCEPT ![0] = [state |-> "failed", val |-> None,
                                          exc |-> outer.exc,
                                          running |-> FALSE]]
          /\ console' = console
  /\ ready' = Append(ready, Handle("stop", 0))
  /\ UNCHANGED <<delays, awaits, fails, clock, timers, ntodo, stopping, lpc,
                 outer, observed, notLoop>>

\* A done callback that forgets to stop the loop (mutant).
StopCallbackForgets ==
  /\ Runs("stop", 0)
  /\ ready' = Tail(ready)
  /\ ntodo' = ntodo - 1
  /\ UNCHANGED <<delays, awaits, fails, clock, timers, stopping, lpc, task,
                 outer, observed, console, notLoop>>

\* run_until_complete's done callback: loop.stop().
StopCallback ==
  /\ Runs("stop", 0)
  /\ stopping' = TRUE
  /\ ready' = Tail(ready)
  /\ ntodo' = ntodo - 1
  /\ UNCHANGED <<delays, awaits, fails, clock, timers, lpc, task, outer, observed,
                 console, notLoop>>

\* The iteration in which stop() was called is over: run_forever returns,
\* asyncio.run cancels the tasks that are not done and closes the loop.
Shutdown ==
  /\ lpc = "running"
  /\ ntodo = 0
  /\ Executing = {}
  /\ stopping
  /\ task' = [i \in 0 .. NTasks |->
                IF Terminal(i) THEN task[i]
                ELSE [task[i] EXCEPT !.state = "cancelled"]]
  /\ ready' = <<>>
  /\ timers' = <<>>
  /\ lpc' = "closed"
  /\ UNCHANGED <<delays, awaits, fails, clock, ntodo, stopping, outer, observed,
                 console, notLoop>>

(***************************************************************************)
(* Specifications.                                                         *)
(***************************************************************************)
\* Sequences over S of length 1 .. n.
SeqsUpTo(S, n) == UNION {[1 .. k -> S] : k \in 1 .. n}

IdleGenVars  == gen = IdleGen /\ call = IdleCall /\ ncalls = 0
IdleIterVars == it = IdleIt /\ itcall = IdleItCall
IdlePoolVars ==
  /\ inputs = <<>>
  /\ block = "map"
  /\ mpc = "done"
  /\ fut = <<>>
  /\ workq = <<>>
  /\ finishOrder = <<>>
  /\ ac = IdleAc
  /\ received = <<>>
  /\ cancels = <<>>
  /\ rejected = 0

IdleLoopVars ==
  /\ delays = [i \in Children |-> 1]
  /\ awaits = [i \in Children |-> 0]
  /\ fails = [i \in Children |-> FALSE]
  /\ clock = 0
  /\ ready = <<>>
  /\ timers = <<>>
  /\ ntodo = 0
  /\ stopping = TRUE
  /\ lpc = "closed"
  /\ task = [i \in 0 .. NTasks |-> NewTask("cancelled")]
  /\ outer = [state |-> "NONE", val |-> None, exc |-> NoExc, nfinished |-> 0]
  /\ observed = <<>>
  /\ console = <<>>

InitGen ==
  /\ gen \in {NewGen(b, <<>>) : b \in GenBodies}
  /\ call = IdleCall
  /\ ncalls = 0
  /\ IdleIterVars
  /\ IdlePoolVars
  /\ IdleLoopVars

NextGen ==
  \/ \E b \in GenBodies : Create(b)
  \/ \E v \in Values : Send(v)
  \/ \E e \in Excs : Throw(e)
  \/ Close

SpecGen == InitGen /\ [][NextGen]_vars

InitIter ==
  /\ \E s \in Args, e \in Args :
        it \in {SquareRange(s, e), SquareGen(s, e)}
  /\ itcall = IdleItCall
  /\ IdleGenVars
  /\ IdlePoolVars
  /\ IdleLoopVars

NextIter ==
  \/ NextCall
  \/ ForCall

SpecIter == InitIter /\ [][NextIter]_vars

\* Manual vs generator approach: Count(s, e) next to count_generator(s, e + 1).
InitCount ==
  /\ \E s \in Args, e \in Args :
        /\ it = Count(s, e)
        /\ gen = CountGen(s, e + 1)
  /\ itcall = IdleItCall
  /\ call = IdleItCall
  /\ ncalls = 0
  /\ IdlePoolVars
  /\ IdleLoopVars

NextCount ==
  \/ NextBoth
  \/ ForBoth

SpecCount == InitCount /\ [][NextCount]_vars

InitPool ==
  /\ inputs \in SeqsUpTo(1 .. MaxSec, MaxUnits)
  /\ block \in {"submit", "map"}
  /\ mpc = "submit"
  /\ fut = <<>>
  /\ workq = <<>>
  /\ finishOrder = <<>>
  /\ ac = IdleAc
  /\ received = <<>>
  /\ cancels = <<>>
  /\ rejected = 0
  /\ IdleGenVars
  /\ IdleIterVars
  /\ IdleLoopVars

NextPool ==
  \/ Submit
  \/ StartIterating
  \/ Dispatch
  \/ \E u \in Running : Finish(u)
  \/ AsCompletedStart
  \/ AsCompletedNext
  \/ MapNext
  \/ LoopEnds
  \/ Exit
  \/ SubmitAfterShutdown

SpecPool == InitPool /\ [][NextPool]_vars

\* The submit block with a caller that also cancels futures, which the
\* script leaves to its reader ("You control when and how to wait, cancel,
\* or inspect it"); every unit waits one second.
InitCancel ==
  /\ inputs \in {[k \in 1 .. n |-> 1] : n \in 1 .. MaxUnits}
  /\ block = "submit"
  /\ mpc = "submit"
  /\ fut = <<>>
  /\ workq = <<>>
  /\ finishOrder = <<>>
  /\ ac = IdleAc
  /\ received = <<>>
  /\ cancels = <<>>
  /\ rejected = 0
  /\ IdleGenVars
  /\ IdleIterVars
  /\ IdleLoopVars

NextCancel ==
  \/ Submit
  \/ StartIterating
  \/ Dispatch
  \/ \E u \in Submitted : Cancel(u)
  \/ \E u \in Running : Finish(u)
  \/ AsCompletedStart
  \/ AsCompletedNext
  \/ LoopEnds
  \/ Exit
  \/ SubmitAfterShutdown

SpecCancel == InitCancel /\ [][NextCancel]_vars

\* asyncio.run(main()): the loop is created and main's first step is
\* scheduled.
InitLoop ==
  /\ delays \in [Children -> 1 .. MaxDelay]
  /\ awaits = [i \in Children |-> 0]
  /\ fails \in [Children -> BOOLEAN]
  /\ clock = 0
  /\ ready = <<Handle("step", 0)>>
  /\ timers = <<>>
  /\ ntodo = 0
  /\ stopping = FALSE
  /\ lpc = "running"
  /\ task = [i \in 0 .. NTasks |-> NewTask(IF i = 0 THEN "ready" ELSE "new")]
  /\ outer = [state |-> "NONE", val |-> None, exc |-> NoExc, nfinished |-> 0]
  /\ observed = <<>>
  /\ console = <<>>
  /\ IdleGenVars
  /\ IdleIterVars
  /\ IdlePoolVars

NextLoop ==
  \/ LoopIterate
  \/ \E i \in 0 .. NTasks : Enter(i)
  \/ MainStart
  \/ \E i \in Children : ChildStart(i)
  \/ \E i \in Children : TimerFires(i)
  \/ \E i \in Children : ChildResume(i)
  \/ \E i \in Children : GatherCallback(i)
  \/ MainResume
  \/ StopCallback
  \/ Shutdown

SpecLoop == InitLoop /\ [][NextLoop]_vars

\* The same program with requests that may wait for one another: every
\* request either sleeps or awaits another request, and none fails.  The
\* loop's thread never stops taking steps while it has one to take.
WaitGraphs == {w \in [Children -> 0 .. NTasks] : \A i \in Children : w[i] # i}

InitWait ==
  /\ delays \in [Children -> 1 .. MaxDelay]
  /\ awaits \in WaitGraphs
  /\ fails = [i \in Children |-> FALSE]
  /\ clock = 0
  /\ ready = <<Handle("step", 0)>>
  /\ timers = <<>>
  /\ ntodo = 0
  /\ stopping = FALSE
  /\ lpc = "running"
  /\ task = [i \in 0 .. NTasks |-> NewTask(IF i = 0 THEN "ready" ELSE "new")]
  /\ outer = [state |-> "NONE", val |-> None, exc |-> NoExc, nfinished |-> 0]
  /\ observed = <<>>
  /\ console = <<>>
  /\ IdleGenVars
  /\ IdleIterVars
  /\ IdlePoolVars

NextWait ==
  \/ NextLoop
  \/ \E i \in Children : ChildAwait(i)

SpecWait == InitWait /\ [][NextWait]_vars /\ WF_vars(NextWait)

(***************************************************************************)
(* Properties of generator objects (SpecGen).                              *)
(***************************************************************************)
\* How many times line x was printed.
Occurrences(out, x) == Cardinality({i \in 1 .. Len(out) : out[i] = x})

C6_PrimeFirst ==
  [][(call'.op = "send" /\ call'.arg # None) =>
       /\ gen.state = "CREATED" =>
            call'.res = Raised("TypeError", None) /\ gen' = gen
       /\ call'.res.exc = "" => gen.state = "SUSPENDED"]_genVars

C6_Witness ==
  /\ call.op = "send"
  /\ call.arg # None
  /\ call.pre = "CREATED"
  /\ call.res.exc = "TypeError"
  /\ gen.state = "CREATED"

\* The exceptions that report a misuse of the generator protocol.
UsageErrors == {"TypeError", "RuntimeError"}

\* C7 as claimed: resuming a task after it COMPLETED is a usage error, never
\* the ordinary end-of-sequence result.
C7_Original ==
  [][(call'.op = "send" /\ gen.state = "CLOSED" /\ gen.how = "returned") =>
       call'.res.exc \in UsageErrors]_genVars

\* C7 as amended: resuming a task after it COMPLETED runs no further body
\* code and delivers no value; the caller gets StopIteration with no value,
\* the ordinary end-of-sequence signal.
C7_ResumeCompleted ==
  [][(call'.op = "send" /\ gen.state = "CLOSED" /\ gen.how = "returned") =>
       call'.res = Raised("StopIteration", None) /\ gen' = gen]_genVars

C7_Witness ==
  /\ call.op = "send"
  /\ call.pre = "CLOSED"
  /\ gen.how = "returned"
  /\ gen.body = "loud_generator"
  /\ call.res = Raised("StopIteration", None)

\* C9: cancelling (closing) a task suspended inside the try block of
\* database_reader runs the finally block exactly once, before the task is
\* observed terminal, and afterwards no call yields a row or runs the body.
C9_CleanupOnClose ==
  /\ [](gen.body = "database_reader" =>
          /\ gen.state # "CLOSED" => Occurrences(gen.out, Disconnected) = 0
          /\ (gen.state = "CLOSED" /\ gen.pc > 0) =>
               Occurrences(gen.out, Disconnected) = 1
          /\ (gen.state = "CLOSED" /\ gen.pc = 0) =>
               Occurrences(gen.out, Disconnected) = 0)
  /\ [][(gen.body = "database_reader" /\ gen.state = "CLOSED"
         /\ call'.op # "create") =>
          gen' = gen /\ call'.res.val = None]_genVars

C9_Witness ==
  /\ gen.body = "database_reader"
  /\ call.op = "close"
  /\ call.pre = "SUSPENDED"
  /\ gen.pc = 1
  /\ gen.state = "CLOSED"
  /\ gen.how = "closed"
  /\ Occurrences(gen.out, Disconnected) = 1

\* C10 as claimed: a body that yields again after the cancellation signal
\* is reported to the caller of cancel as a usage error, and the task is
\* never SUSPENDED once the cancel call is over.
C10_Original ==
  call.op = "close" =>
    /\ gen.state # "SUSPENDED"
    /\ call.res.exc \in UsageErrors \cup {""}

\* C10 as amended: the cancel call either returns and the task is terminal,
\* or the body has yielded again, the caller gets the usage error
\* RuntimeError and the task is left SUSPENDED at the yield it reached.
C10_YieldAfterCancel ==
  call.op = "close" =>
    \/ call.res = Returned(None) /\ gen.state = "CLOSED"
    \/ /\ call.res = Raised("RuntimeError", None)
       /\ gen.state = "SUSPENDED"
       /\ call.pre = "SUSPENDED"

C10_Witness ==
  /\ call.op = "close"
  /\ gen.body = "stubborn_reader"
  /\ call.res.exc = "RuntimeError"
  /\ gen.state = "SUSPENDED"
  /\ gen.pc = 2

\* What the ValueError handler of a body yields.
HandlerValue(b) ==
  IF b = "thrower" THEN Str("ValueError handled") ELSE Str("Handled error")

\* The frame is inside the try block of thrower, or of the sub_eh that
\* main_eh delegates to.
InTry(g) ==
  \/ g.body = "thrower" /\ g.pc \in {1, 2}
  \/ g.body = "main_eh" /\ g.pc = 1 /\ g.loc[1].pc \in {1, 2}

\* C11: an exception thrown into a suspended generator is raised at its
\* pending yield and takes the body's own handling.  Either the body reaches
\* another yield: the throw call returns the yielded value and the generator
\* stays SUSPENDED; or the exception leaves the body: the generator is
\* CLOSED as failed and the caller gets that same exception.  In the try
\* block of thrower, and of the sub_eh that main_eh delegates to, a
\* ValueError is handled and the call returns what the handler yields; any
\* other exception is not handled; database_reader's finally block runs.
C11_ThrowAtSuspension ==
  [][(call'.op = "throw" /\ call'.pre = "SUSPENDED" /\ ncalls' = ncalls + 1) =>
       /\ \/ /\ gen'.state = "SUSPENDED"
             /\ call'.res.exc = ""
          \/ /\ gen'.state = "CLOSED"
             /\ gen'.how = "raised"
             /\ call'.res = Raised(call'.arg[2], None)
       /\ InTry(gen) =>
            IF call'.arg = Str("ValueError")
            THEN /\ call'.res = Returned(HandlerValue(gen.body))
                 /\ gen'.state = "SUSPENDED"
            ELSE gen'.state = "CLOSED"
       /\ gen.body = "database_reader" =>
            /\ gen'.state = "CLOSED"
            /\ Occurrences(gen'.out, Disconnected) = 1]_genVars

\* A ValueError thrown through main_eh was handled inside sub_eh.
C11_Witness ==
  /\ call.op = "throw"
  /\ call.pre = "SUSPENDED"
  /\ gen.body = "main_eh"
  /\ gen.state = "SUSPENDED"
  /\ call.res = Returned(Str("Handled error"))

\* The last value of the run 1, 2, .. that the consumer of main (1, 2 from
\* sub, then main's own 3) or of main_retval (1, 2 from retval) is given.
LastValue(b) == IF b = "main" THEN 3 ELSE 2

\* C22: delegation with `yield from` is transparent to the consumer.  The
\* consumer of main is given 1 and 2 from sub and then main's own 3, in that
\* order, and then StopIteration; the consumer of main_retval is given 1 and
\* 2 from retval.  A value sent to main_task while it delegates arrives at
\* the pending yield of sub_task, which prints it.  What retval returns
\* becomes the value of the `yield from` expression in main_retval, which
\* prints it, and is never given to the consumer: no call returns it and
\* the StopIteration that ends main_retval carries None.
C22_DelegationTransparent ==
  [][(call'.op = "send" /\ ncalls' = ncalls + 1) =>
       /\ (gen.body \in {"main", "main_retval"} /\ call'.pre = "CREATED"
             /\ call'.arg = None) =>
            /\ call'.res = Returned(Num(1))
            /\ gen'.out = <<>>
       /\ (gen.body \in {"main", "main_retval"} /\ call'.pre = "SUSPENDED") =>
            /\ call.res.exc = ""
            /\ call.res.val \in {Num(k) : k \in 1 .. LastValue(gen.body)}
            /\ IF call.res.val[2] < LastValue(gen.body)
               THEN /\ call'.res = Returned(Num(call.res.val[2] + 1))
                    /\ gen'.out = <<>>
               ELSE /\ call'.res = Raised("StopIteration", None)
                    /\ gen'.how = "returned"
                    /\ gen'.out = IF gen.body = "main_retval"
                                  THEN <<(<<Str("Done")>>)>> ELSE <<>>
       /\ (gen.body = "main_task" /\ call'.pre = "CREATED"
             /\ call'.arg = None) =>
            /\ call'.res = Returned(None)
            /\ gen'.out = <<>>
       /\ (gen.body = "main_task" /\ call'.pre = "SUSPENDED") =>
            /\ call'.res = Returned(None)
            /\ gen'.state = "SUSPENDED"
            /\ gen'.out = Append(gen.out, <<"Sub recieved: ", call'.arg>>)
       /\ gen.body = "main_retval" => call'.res.val # Str("Done")]_genVars

\* m = main_task(); next(m); m.send(v): sub_task has printed the value v
\* that was sent to main_task.
C22_Witness ==
  /\ gen.body = "main_task"
  /\ gen.state = "SUSPENDED"
  /\ call.op = "send"
  /\ call.pre = "SUSPENDED"
  /\ call.arg = Str("Tomato")
  /\ call.res = Returned(None)
  /\ gen.out = <<(<<"Sub recieved: ", Str("Tomato")>>)>>

\* C12: over next / send / throw / close a generator object only moves
\* forward: it never goes back to CREATED, and once CLOSED (returned, raised
\* or closed) no call changes its state, the way it ended, or what it has
\* printed.
C12_ForwardOnly ==
  [][(call'.op # "create" /\ ncalls' = ncalls + 1) =>
       /\ gen'.state = "CREATED" => gen.state = "CREATED"
       /\ gen.state = "CLOSED" => gen' = gen
       /\ gen'.state = "CLOSED" <=> gen'.how \in {"returned", "raised", "closed"}
       /\ gen'.body = gen.body]_genVars

\* A throw on a generator that had returned left it as it was.
C12_Witness ==
  /\ call.op = "throw"
  /\ call.pre = "CLOSED"
  /\ gen.state = "CLOSED"
  /\ gen.how = "returned"

(***************************************************************************)
(* Properties of iterators (SpecIter).                                     *)
(***************************************************************************)
\* The call consumed the iterator to exhaustion.
Exhausting(c) ==
  \/ c.op = "for" /\ c.res.exc = ""
  \/ c.op = "next" /\ c.res.exc = "StopIteration"

\* C8: lazy sequences are one-shot: once a SquareRange instance or a
\* generator has been consumed to exhaustion, every later next() signals
\* exhaustion again, every later for loop prints nothing and ends without
\* an error, and the object no longer changes.
C8_OneShot ==
  [][Exhausting(itcall) =>
       /\ it' = it
       /\ itcall'.op = "next" => itcall'.res = Raised("StopIteration", None)
       /\ itcall'.op = "for" =>
            itcall'.printed = <<>> /\ itcall'.res = Returned(None)]_iterVars

C8_Witness ==
  /\ it.cls = "SquareRange"
  /\ it.start < it.end
  /\ itcall.op = "for"
  /\ itcall.printed = <<>>
  /\ itcall.res = Returned(None)

Max(a, b) == IF a >= b THEN a ELSE b

\* The squares of from, from + 1, ..., to - 1 (none when from >= to).
Squares(from, to) ==
  [k \in 1 .. Max(0, to - from) |-> Num((from + k - 1) * (from + k - 1))]

\* C20: a for loop over SquareRange(start, end) prints the squares of the
\* integers from its current value (start, for a fresh object) up to
\* end - 1, in that order, and nothing when none is left; next() returns the
\* square of the current value and moves on by one.  value never decreases
\* and stays within start .. max(start, end); a __next__ that raises
\* StopIteration leaves start, end and value as they were.
C20_SquaresInOrder ==
  /\ [](it.cls = "SquareRange" =>
          /\ it.start <= it.value
          /\ it.value <= Max(it.start, it.end)
          /\ (itcall.op = "for" /\ itcall.printed # <<>>) =>
               \E from \in it.start .. it.end :
                 itcall.printed = Squares(from, it.end))
  /\ [][it.cls = "SquareRange" =>
          /\ it'.cls = "SquareRange"
          /\ it'.start = it.start /\ it'.end = it.end
          /\ it'.value >= it.value
          /\ itcall'.op = "for" =>
               /\ itcall'.printed = Squares(it.value, it.end)
               /\ itcall'.res = Returned(None)
               /\ it'.value = Max(it.value, it.end)
          /\ (itcall'.op = "next" /\ it.value < it.end) =>
               /\ itcall'.res = Returned(Num(it.value * it.value))
               /\ it'.value = it.value + 1
          /\ (itcall'.op = "next" /\ it.value >= it.end) =>
               /\ itcall'.res = Raised("StopIteration", None)
               /\ it' = it]_iterVars

\* SquareRange(1, 4) has been iterated once, from its start.
C20_Witness ==
  /\ it.cls = "SquareRange"
  /\ it.start = 1
  /\ it.end = 4
  /\ itcall.op = "for"
  /\ itcall.printed = <<Num(1), Num(4), Num(9)>>
  /\ it.value = 4

(***************************************************************************)
(* Properties of Count next to count_generator (SpecCount).                *)
(***************************************************************************)
\* C21: for integers s and e, the successive next() calls on Count(s, e)
\* (end inclusive) and on count_generator(s, e + 1) (end exclusive) give the
\* same outcome at every step: the same value, or StopIteration from both;
\* so the for loops over the two print the same values.
C21_StepEquivalent ==
  /\ gen.loc.end = it.end + 1
  /\ itcall.res = call.res
  /\ itcall.printed = call.printed

\* The inclusive end itself is the value both have just returned, after at
\* least one earlier value.
C21_Witness ==
  /\ itcall.op = "next"
  /\ gen.loc.start < it.end
  /\ itcall.res = Returned(Num(it.end))
  /\ call.res = Returned(Num(it.end))
  /\ gen.state = "SUSPENDED"

(***************************************************************************)
(* Properties of the thread pool (SpecPool).                               *)
(***************************************************************************)
\* The place of a finished unit in the order of completion.
FinPos(u) == CHOOSE p \in 1 .. Len(finishOrder) : finishOrder[p] = u

\* Handle x was yielded before the q-th yield.
YieldedBefore(x, q) == \E p \in 1 .. (q - 1) : ac.yielded[p] = x

\* C1: executor.map delivers results in input order whatever the order of
\* completion: the k-th value the caller receives is do_wait(inputs[k]).
C1_MapInputOrder ==
  block = "map" =>
    \A k \in 1 .. Len(received) : received[k] = do_wait(inputs[k])

C1_Witness ==
  /\ block = "map"
  /\ mpc = "done"
  /\ Len(received) = Len(inputs)
  /\ finishOrder[1] > 1
  /\ inputs[finishOrder[1]] # inputs[1]

\* C2 as claimed: as_completed yields in completion order: whenever X
\* finished strictly before Y, X's handle is yielded before Y's.
C2_Original ==
  block = "submit" =>
    \A q \in 1 .. Len(ac.yielded) :
      \A p \in 1 .. Len(finishOrder) :
        p < FinPos(ac.yielded[q]) => YieldedBefore(finishOrder[p], q)

\* C2 as amended: whenever X finished strictly before Y and Y had not yet
\* finished when as_completed started, X's handle is yielded before Y's
\* (the handles already finished at the start come first, in any order).
C2_CompletionOrder ==
  block = "submit" =>
    \A q \in 1 .. Len(ac.yielded) :
      ac.yielded[q] \notin ac.early0 =>
        \A p \in 1 .. Len(finishOrder) :
          p < FinPos(ac.yielded[q]) => YieldedBefore(finishOrder[p], q)

C2_Witness ==
  /\ block = "submit"
  /\ Len(inputs) >= 3
  /\ Len(ac.yielded) = Len(inputs)
  /\ ac.early0 = {}
  /\ finishOrder[1] = 2
  /\ ac.yielded[1] = 2

(***************************************************************************)
(* Properties of the executor (SpecPool, SpecCancel).                      *)
(***************************************************************************)
\* The sequence has no element twice.
NoRepeat(q) == \A a, b \in 1 .. Len(q) : q[a] = q[b] => a = b

\* The futures that wait for a worker.
Pending == {u \in Submitted : fut[u].state = "PENDING"}

\* C16: at most PoolSize units run at the same time.  The units that have
\* not been taken up wait in the work queue in submission order; a unit
\* becomes running only as the head of the queue and only when fewer than
\* PoolSize units are running, so a unit submitted while every worker is
\* busy stays queued until one of them is idle.
C16_BoundedFifo ==
  /\ [](/\ Cardinality(Running) <= PoolSize
        /\ \A k \in 1 .. Len(workq) : workq[k] \in Pending
        /\ \A u \in Pending : \E k \in 1 .. Len(workq) : workq[k] = u
        /\ \A a, b \in 1 .. Len(workq) : a < b => workq[a] < workq[b]
        /\ \A u, v \in Submitted : u < v /\ v \notin Pending => u \notin Pending)
  /\ [][/\ \A u \in Pending :
             fut'[u].state # "PENDING" =>
               /\ Cardinality(Running) < PoolSize
               /\ u = Head(workq)
               /\ fut'[u].state = "RUNNING"
        /\ (Len(fut') > Len(fut) /\ Cardinality(Running) = PoolSize) =>
             /\ fut'[Len(fut')].state = "PENDING"
             /\ workq' = Append(workq, Len(fut'))]_poolVars

\* Every worker is busy and a submitted unit waits in the queue.
C16_Witness ==
  /\ Cardinality(Running) = PoolSize
  /\ workq = <<PoolSize + 1>>
  /\ mpc = "iterate"

\* C17: every submitted unit gets one result, written once.  A future that
\* is finished holds do_wait of its input and never changes again, any
\* other holds nothing; no unit finishes twice; after the with-block every
\* submitted future is finished; as_completed yields no future twice and,
\* when its loop is over, has yielded every submitted future.
C17_OneResultEach ==
  /\ [](/\ NoRepeat(finishOrder)
        /\ \A u \in Submitted :
             /\ u \in Finished <=> \E k \in 1 .. Len(finishOrder) :
                                     finishOrder[k] = u
             /\ fut[u].result = IF u \in Finished THEN do_wait(inputs[u])
                                ELSE None
        /\ mpc = "done" => Submitted = Units /\ Finished = Submitted
        /\ NoRepeat(ac.yielded)
        /\ (block = "submit" /\ mpc \in {"exit", "done"}) =>
             {ac.yielded[k] : k \in 1 .. Len(ac.yielded)} = Submitted)
  /\ [][\A u \in Finished : u \in Submitted' /\ fut'[u] = fut[u]]_poolVars

\* Three units were submitted, finished out of order and yielded once each.
C17_Witness ==
  /\ block = "submit"
  /\ mpc = "done"
  /\ Len(fut) = 3
  /\ Len(ac.yielded) = 3
  /\ finishOrder = <<2, 1, 3>>

\* The future is cancelled or finished.
Resolved(u) ==
  fut[u].state \in {"FINISHED", "CANCELLED", "CANCELLED_AND_NOTIFIED"}

\* C18: leaving the with-block returns only when no unit is queued or
\* running: after the block every submitted future is resolved, also when
\* an exception has left the block early while units were still queued and
\* running.  From the moment the block is being left no future is made and
\* nothing is queued: a submit call after the block is rejected.
C18_ShutdownWaits ==
  /\ [](/\ mpc = "done" =>
             /\ workq = <<>>
             /\ Running = {}
             /\ \A u \in Submitted : Resolved(u)
        /\ rejected > 0 => mpc = "done")
  /\ [][(mpc \in {"exit", "done"}) =>
          /\ Len(fut') = Len(fut)
          /\ Len(workq') <= Len(workq)
          /\ mpc' \in {"exit", "done"}
          /\ (rejected' # rejected => (fut' = fut /\ workq' = workq))]_poolVars

\* The block is being left on a CancelledError while one unit is running
\* and another is queued.
C18_Witness ==
  /\ mpc = "exit"
  /\ received # <<>>
  /\ received[Len(received)] = CancelledError
  /\ Running # {}
  /\ \E k \in 1 .. Len(workq) : workq[k] \in Pending

\* C19: cancel() on a future that is queued and not taken up returns True
\* and the future is cancelled from then on: it never runs, never gets a
\* result, and result() raises CancelledError.  cancel() on a future that
\* is running returns False and does not affect it: it runs on and, after
\* the with-block, is finished with its result.
C19_CancelQueuedOnly ==
  \A k \in 1 .. Len(cancels) :
    LET c == cancels[k]
    IN  /\ c.ok <=> c.was \in {"PENDING", "CANCELLED", "CANCELLED_AND_NOTIFIED"}
        /\ c.ok =>
             /\ fut[c.u].state \in {"CANCELLED", "CANCELLED_AND_NOTIFIED"}
             /\ fut[c.u].result = None
             /\ \A j \in 1 .. Len(ac.yielded) :
                  ac.yielded[j] = c.u => received[j] = CancelledError
        /\ ~c.ok =>
             /\ fut[c.u].state \in {"RUNNING", "FINISHED"}
             /\ mpc = "done" =>
                  /\ fut[c.u].state = "FINISHED"
                  /\ fut[c.u].result = do_wait(inputs[c.u])

\* A queued unit was cancelled, a worker came across its item and skipped
\* it, and the with-block has been left.
C19_Witness ==
  /\ Len(cancels) = 1
  /\ cancels[1].was = "PENDING"
  /\ fut[cancels[1].u].state = "CANCELLED_AND_NOTIFIED"
  /\ mpc = "done"

(***************************************************************************)
(* Properties of asyncio.gather (SpecLoop).                                *)
(***************************************************************************)
\* The children whose failure gather's callback has seen, in that order.
SeenFailures == SelectSeq(observed, LAMBDA i : task[i].state = "failed")

\* C3: when every child completes successfully the gather result is the
\* sequence of child results in argument order, whatever the order in which
\* the children finish, and gather is not done before every child is; main
\* is resumed with exactly that sequence.
C3_GatherOrdered ==
  /\ outer.state = "RESULT" =>
       /\ \A i \in Children : task[i].state = "done"
       /\ outer.val = [i \in Children |-> Data(i)]
  /\ (\A i \in Children : ~fails[i]) =>
       /\ outer.state \in {"NONE", "PENDING", "RESULT"}
       /\ task[0].state \in {"done", "failed"} =>
            /\ task[0].state = "done"
            /\ console[Len(console)] =
                 <<"Results: ", [i \in Children |-> Data(i)]>>

C3_Witness ==
  /\ delays = <<3, 2, 1>>
  /\ observed = <<3, 2, 1>>
  /\ outer.state = "RESULT"
  /\ task[0].state = "done"

\* C4: gather is first-failure-wins: from the moment its callback has seen a
\* failed child, gather is Failed with the cause of the first such child,
\* whether or not the other children have finished, and main fails with
\* that cause.
C4_FirstFailureWins ==
  /\ SeenFailures # <<>> =>
       outer.state = "FAILED" /\ outer.exc = Cause(SeenFailures[1])
  /\ SeenFailures = <<>> => outer.state # "FAILED"
  /\ task[0].state = "failed" =>
       SeenFailures # <<>> /\ task[0].exc = Cause(SeenFailures[1])

C4_Witness ==
  /\ outer.state = "FAILED"
  /\ task[0].state = "failed"
  /\ task[0].exc = Cause(3)
  /\ task[1].state = "sleeping"
  /\ task[2].state = "sleeping"

(***************************************************************************)
(* Properties of the event loop (SpecLoop, SpecWait).                      *)
(***************************************************************************)
\* Following the awaits from request i ends at a request that sleeps.
RECURSIVE Grounded(_, _, _)
Grounded(w, i, n) ==
  IF w[i] = 0 THEN TRUE
  ELSE IF n = 0 THEN FALSE
       ELSE Grounded(w, w[i], n - 1)

Acyclic == \A i \in Children : Grounded(awaits, i, NTasks)

\* The loop waits for an event with nothing ready and no timer scheduled.
Hung ==
  /\ lpc = "running"
  /\ ntodo = 0
  /\ ~stopping
  /\ ready = <<>>
  /\ timers = <<>>

Printed(what) ==
  LET ls == SelectSeq(console, LAMBDA l : l[1] = what)
  IN  [k \in 1 .. Len(ls) |-> ls[k][2]]

\* The request has run on from its sleep.
Resumed(i) == task[i].state \in {"done", "failed"}

\* Request i comes before request j: earlier deadline, or the same deadline
\* and handed to gather first.
Before(i, j) ==
  \/ delays[i] < delays[j]
  \/ delays[i] = delays[j] /\ i < j

\* C14: the loop resumes tasks in a fixed order.  The requests, runnable
\* together once gather has scheduled them, start in argument order; they
\* are resumed from their sleeps by increasing deadline, requests of equal
\* deadline in argument order, and gather's callback sees them finish in
\* that order; with sleeps 3, 2, 1 they start A, B, C and finish C, B, A.
C14_DeterministicOrder ==
  /\ \A k \in 1 .. Len(Printed("Starting")) : Printed("Starting")[k] = Name(k)
  /\ \A i, j \in Children :
       Resumed(j) /\ ~Resumed(i) /\ i # j => Before(j, i)
  /\ \A a, b \in 1 .. Len(observed) :
       a < b => Before(observed[a], observed[b])
  /\ (delays = <<3, 2, 1>> /\ \A i \in Children : ~fails[i]) =>
       \E n \in 0 .. NTasks :
         Printed("Finished") = SubSeq(<<Name(3), Name(2), Name(1)>>, 1, n)

\* Requests 1 and 2 had the same deadline, later than request 3's.
C14_Witness ==
  /\ delays = <<2, 2, 1>>
  /\ observed = <<3, 1, 2>>
  /\ Printed("Starting") = <<Name(1), Name(2), Name(3)>>
  /\ Printed("Finished") = <<Name(3), Name(1), Name(2)>>

\* C15: at most one coroutine body is executing in every state, and a body
\* that is executing is not interrupted: the next thing that happens is
\* that same body reaching a suspension point (its sleep, its wait for
\* another task, main's wait for gather), its completion or its failure; no
\* handle is run, no timer fires, and no other task changes before that.
C15_OneBodyAtATime ==
  /\ [](Cardinality(Executing) <= 1)
  /\ [][\A i \in Executing :
          /\ ~task'[i].running
          /\ task'[i].state \in {"sleeping", "awaiting", "done", "failed"}
          /\ task[i].state \notin {"sleeping", "done", "failed"}
          /\ Executing' = {}
          /\ UNCHANGED <<clock, ntodo, stopping, lpc, observed>>]_loopVars

\* Request 2 is executing its first step while request 1 is already
\* suspended in its sleep and request 3 waits for its turn.
C15_Witness ==
  /\ task[2].running
  /\ task[1].state = "sleeping"
  /\ task[3].state = "ready"
  /\ Head(ready) = Handle("step", 3)

====
